---- MODULE Spec2Model ----
(***************************************************************************)
(* copyrighter: the year-set merger (main.rs) and the in-place header      *)
(* rewriter (update.rs), as state machines.                                *)
(*                                                                         *)
(* A file is the sequence of its bytes; a byte is a one-character string   *)
(* (multi-byte UTF-8 characters are several bytes).                        *)
(***************************************************************************)
EXTENDS Integers, Sequences, FiniteSets, TLC

VARIABLES
    \* ---- slide_file_contents, step by step (SlideSpec)
    fileBytes,      \* the bytes of the file behind rust_handle
    mapping,        \* the live Mapping: [live, aligned_length]
    slidePc,        \* position inside slide_file_contents
    slideCall,      \* the running call: [offset, amount, file_length, before]
    slideLog,       \* the calls made so far, oldest first
    \* ---- update_file on one file, run after run (UpdateSpec)
    updJob,         \* [years, organization] given to update_file
    updLog,         \* the runs made so far on fileBytes, oldest first
    \* ---- main: the merge (MergeSpec)
    mainPc,         \* position of the main thread
    first_git_year, \* get_first_commit_year()
    header_years,   \* the map joined from the header scan, then trimmed
    git_years,      \* the map joined from the history scan
    joined,         \* [header, git]: the two maps as they were joined
    all_years,      \* the map combine_year_maps returns
    \* ---- a whole run of the program (Spec)
    organization,   \* the -o argument
    fs,             \* the files behind the paths: [exists, bytes]
    fsStart,        \* fs when the program started
    num_cpus,       \* num_cpus::get(): the size of each thread pool
    gitPc,          \* the history thread
    gitResult,      \* the map the history thread returns
    hdrPc,          \* the header thread (get_year_map_thread)
    scanPc,         \* the scan_file task of every path
    scanShared,     \* existing.rs SharedState: [paths_remaining, result]
    scanMutex,      \* who holds existing.rs SyncState.mutex
    scanSignal,     \* a notify_all the header thread has yet to wake from
    taskPc,         \* the update_file task of every path
    paths_remaining,\* update.rs SyncState.paths_remaining
    updMutex,       \* who holds the paths_remaining mutex
    updSignal,      \* a notify_all the main thread has yet to wake from
    reports         \* the panics reported on stderr: [stage, path, at]

slideVars == <<fileBytes, mapping, slidePc, slideCall, slideLog>>
updVars == <<updJob, updLog>>
mergeVars == <<mainPc, first_git_year, header_years, git_years, joined,
               all_years>>

runVars == <<organization, fs, fsStart, num_cpus, gitPc, gitResult, hdrPc,
             scanPc, scanShared, scanMutex, scanSignal, taskPc,
             paths_remaining, updMutex, updSignal, reports>>

vars == <<slideVars, updVars, mergeVars, runVars>>

notSlide == <<updVars, mergeVars, runVars>>

----------------------------------------------------------------------------
\* Bounds of the model.

\* sysconf(_SC_PAGESIZE), scaled down so that files cross a page boundary
PageSize == 32
\* |amount| of the slides tried in SlideSpec
MaxAmount == 3
\* the short file lengths tried in SlideSpec (next to those around a page)
MaxSmallLen == 3
\* calls of slide_file_contents in a row in SlideSpec
MaxCalls == 2
\* runs of update_file on the same file in UpdateSpec
MaxRuns == 2
\* length of the long file body tried in UpdateSpec
BodyLen == 12
\* number of paths given on the command line
NumPaths == 2
\* the most failures of system calls that one run is made to meet
MaxFaults == 1

----------------------------------------------------------------------------
\* Bytes and byte strings.

NUL == "NUL"

Zeros(n) == [i \in 1..n |-> NUL]

\* a file of n bytes, all different
DistinctFile(n) == [i \in 1..n |-> ToString(i)]

\* a file of n bytes, all the same
UniformFile(n) == [i \in 1..n |-> "a"]

NoMapping == [live |-> FALSE, aligned_length |-> 0]
NoCall == [offset |-> 0, amount |-> 0, file_length |-> 0, before |-> <<>>]
NoJob == [years |-> <<>>, organization |-> <<>>]
\* a YearMap without entries
EmptyMap == <<>>

\* the paths given on the command line
PathName(i) == "p" \o ToString(i)
Paths == {PathName(i) : i \in 1..NumPaths}

SlideIdle ==
    /\ mapping = NoMapping
    /\ slidePc = "idle"
    /\ slideCall = NoCall
    /\ slideLog = <<>>

UpdateIdle ==
    /\ updJob = NoJob
    /\ updLog = <<>>

MergeIdle ==
    /\ mainPc = "off"
    /\ first_git_year = 0
    /\ header_years = EmptyMap
    /\ git_years = EmptyMap
    /\ joined = [header |-> EmptyMap, git |-> EmptyMap]
    /\ all_years = EmptyMap

RunIdle ==
    /\ organization = <<>>
    /\ fs = EmptyMap
    /\ fsStart = EmptyMap
    /\ num_cpus = 0
    /\ gitPc = "off"
    /\ gitResult = EmptyMap
    /\ hdrPc = "off"
    /\ scanPc = [p \in Paths |-> "off"]
    /\ scanShared = [paths_remaining |-> 0, result |-> EmptyMap]
    /\ scanMutex = "free"
    /\ scanSignal = FALSE
    /\ taskPc = [p \in Paths |-> "off"]
    /\ paths_remaining = 0
    /\ updMutex = "free"
    /\ updSignal = FALSE
    /\ reports = {}

----------------------------------------------------------------------------
\* The system calls slide_file_contents makes.

\* a rounding that adds a page to a length that is a multiple already
round_to_page_next(len) == len + PageSize - (len % PageSize)

\* round_to_page: sizes passed to mmap are page-aligned
round_to_page(len) ==
    LET remainder == len % PageSize
    IN  IF remainder = 0 THEN len ELSE len + PageSize - remainder

\* posix_fallocate(fd, 0, new_length): the file is at least new_length bytes
\* long afterwards, the added bytes are zero
posix_fallocate(f, new_length) ==
    IF new_length > Len(f) THEN f \o Zeros(new_length - Len(f)) ELSE f

\* ftruncate(fd, new_length)
ftruncate(f, new_length) ==
    IF new_length <= Len(f) THEN SubSeq(f, 1, new_length)
    ELSE f \o Zeros(new_length - Len(f))

\* Mapping::open(fd, file_length): mmap of aligned_length bytes from offset
\* 0; mmap fails with EINVAL when the length is 0
MappingOpenFails(file_length) == round_to_page(file_length) = 0

\* a memmove whose destination starts one byte too early
ptr_copy_early(f, src, dst, count, aligned_length) ==
    LET low     == IF dst > 0 THEN dst - 1 ELSE dst
        touched == (src .. src + count - 1) \cup (low .. low + count - 1)
        outside == \E k \in touched : k >= aligned_length
        written == {k \in low .. low + count - 1 :
                        k < aligned_length /\ k < Len(f)}
        moved   == [i \in 1..Len(f) |->
                        IF (i - 1) \in written
                        THEN f[(i - 1) - low + src + 1] ELSE f[i]]
    IN  IF ~outside
        THEN {[status |-> "ok", file |-> moved]}
        ELSE {[status |-> "ok", file |-> moved],
              [status |-> "killed", file |-> moved],
              [status |-> "killed", file |-> f]}

\* ptr::copy(ptr + src, mut_ptr + dst, count): a memmove inside a MAP_SHARED
\* mapping of aligned_length bytes of file f. Offsets are 0-based. A byte of
\* the range that lies outside the mapping is an out-of-bounds access
\* (undefined behaviour): the process is killed by the fault, with the bytes
\* inside the mapping moved or not, or the access lands in whatever memory
\* follows the mapping and the call returns with only the bytes inside the
\* mapping written to the file.
ptr_copy(f, src, dst, count, aligned_length) ==
    LET touched == (src .. src + count - 1) \cup (dst .. dst + count - 1)
        outside == \E k \in touched : k >= aligned_length
        written == {k \in dst .. dst + count - 1 :
                        k < aligned_length /\ k < Len(f)}
        moved   == [i \in 1..Len(f) |->
                        IF (i - 1) \in written
                        THEN f[(i - 1) - dst + src + 1] ELSE f[i]]
    IN  IF ~outside
        THEN {[status |-> "ok", file |-> moved]}
        ELSE {[status |-> "ok", file |-> moved],
              [status |-> "killed", file |-> moved],
              [status |-> "killed", file |-> f]}

----------------------------------------------------------------------------
\* slide_file_contents, one action per step.

SlideLens == (0..MaxSmallLen) \cup ((PageSize - 1)..(PageSize + 1))

SlideInit ==
    /\ fileBytes \in {DistinctFile(n) : n \in SlideLens}
                    \cup {UniformFile(n) : n \in SlideLens}
    /\ mapping = NoMapping
    /\ slidePc = "idle"
    /\ slideCall = NoCall
    /\ slideLog = <<>>
    /\ UpdateIdle
    /\ MergeIdle
    /\ RunIdle

\* entry: the assertion, the early return, metadata() and the size check
Enter(offset, amount, ok) ==
    /\ Len(slideLog) < MaxCalls
    /\ slideCall' = [offset |-> offset, amount |-> amount,
                     file_length |-> Len(fileBytes), before |-> fileBytes]
    /\ slideLog' = Append(slideLog, [offset |-> offset, amount |-> amount,
                                     before |-> fileBytes])
    /\ slidePc' = IF offset + amount < 0 THEN "panicked"
                  ELSE IF amount = 0 THEN "returned"
                  ELSE IF ~ok THEN "panicked"
                  ELSE "sized"
    /\ UNCHANGED <<fileBytes, mapping>>
    /\ UNCHANGED notSlide

\* a first call, with any offset inside the file and any amount
SlideEnter(offset, amount, ok) ==
    /\ slidePc = "idle"
    /\ Enter(offset, amount, ok)

\* a call that follows a returned one and undoes its amount: at the same
\* offset, or at the offset where the moved tail now starts
SlideBack(offset, ok) ==
    /\ slidePc = "returned"
    /\ offset \in {slideCall.offset, slideCall.offset + slideCall.amount}
    /\ offset <= Len(fileBytes)
    /\ Enter(offset, -slideCall.amount, ok)

\* grow: posix_fallocate(fd, 0, new_length), asserted to succeed
SlideFallocate(ok) ==
    /\ slidePc = "sized"
    /\ slideCall.amount > 0
    /\ IF ok
       THEN /\ fileBytes' = posix_fallocate(fileBytes,
                               slideCall.file_length + slideCall.amount)
            /\ slidePc' = "fallocated"
       ELSE /\ slidePc' = "panicked"
            /\ UNCHANGED fileBytes
    /\ UNCHANGED <<mapping, slideCall, slideLog>>
    /\ UNCHANGED notSlide

\* a mapping made without waiting for the reservation of a grow
SlideMapUnreserved(ok) ==
    /\ slidePc \in {"sized", "fallocated"}
    /\ IF ok /\ ~MappingOpenFails(slideCall.file_length)
       THEN /\ mapping' = [live |-> TRUE,
                           aligned_length |->
                               round_to_page(slideCall.file_length)]
            /\ slidePc' = "mapped"
       ELSE /\ slidePc' = "panicked"
            /\ UNCHANGED mapping
    /\ UNCHANGED <<fileBytes, slideCall, slideLog>>
    /\ UNCHANGED notSlide

\* Mapping::open(fd, file_length).unwrap(), in both branches
SlideMap(ok) ==
    /\ \/ slidePc = "sized" /\ slideCall.amount < 0
       \/ slidePc = "fallocated"
    /\ IF ok /\ ~MappingOpenFails(slideCall.file_length)
       THEN /\ mapping' = [live |-> TRUE,
                           aligned_length |->
                               round_to_page(slideCall.file_length)]
            /\ slidePc' = "mapped"
       ELSE /\ slidePc' = "panicked"
            /\ UNCHANGED mapping
    /\ UNCHANGED <<fileBytes, slideCall, slideLog>>
    /\ UNCHANGED notSlide

\* the memmove of [offset, file_length) to offset + amount
SlideCopy ==
    /\ slidePc = "mapped"
    /\ \E r \in ptr_copy(fileBytes, slideCall.offset,
                         slideCall.offset + slideCall.amount,
                         slideCall.file_length - slideCall.offset,
                         mapping.aligned_length) :
          /\ fileBytes' = r.file
          /\ slidePc' = IF r.status = "ok" THEN "copied" ELSE "killed"
    /\ UNCHANGED <<mapping, slideCall, slideLog>>
    /\ UNCHANGED notSlide

\* Mapping::drop: drop(mapping) in the shrink, end of scope in the grow
SlideUnmap ==
    /\ slidePc = "copied"
    /\ mapping' = NoMapping
    /\ slidePc' = IF slideCall.amount < 0 THEN "unmapped" ELSE "returned"
    /\ UNCHANGED <<fileBytes, slideCall, slideLog>>
    /\ UNCHANGED notSlide

\* a truncation that does not wait for the mapping to be released
SlideTruncateMapped(ok) ==
    /\ slidePc \in {"copied", "unmapped"}
    /\ slideCall.amount < 0
    /\ IF ok
       THEN /\ fileBytes' = ftruncate(fileBytes,
                               slideCall.file_length + slideCall.amount)
            /\ slidePc' = "returned"
       ELSE /\ slidePc' = "panicked"
            /\ UNCHANGED fileBytes
    /\ UNCHANGED <<mapping, slideCall, slideLog>>
    /\ UNCHANGED notSlide

\* shrink: ftruncate(fd, new_length), asserted to succeed
SlideTruncate(ok) ==
    /\ slidePc = "unmapped"
    /\ IF ok
       THEN /\ fileBytes' = ftruncate(fileBytes,
                               slideCall.file_length + slideCall.amount)
            /\ slidePc' = "returned"
       ELSE /\ slidePc' = "panicked"
            /\ UNCHANGED fileBytes
    /\ UNCHANGED <<mapping, slideCall, slideLog>>
    /\ UNCHANGED notSlide

SlideNext ==
    \/ \E offset \in 0..Len(fileBytes), amount \in (-MaxAmount)..MaxAmount,
          ok \in BOOLEAN : SlideEnter(offset, amount, ok)
    \/ \E offset \in 0..Len(fileBytes), ok \in BOOLEAN : SlideBack(offset, ok)
    \/ \E ok \in BOOLEAN : SlideFallocate(ok)
    \/ \E ok \in BOOLEAN : SlideMap(ok)
    \/ SlideCopy
    \/ SlideUnmap
    \/ \E ok \in BOOLEAN : SlideTruncate(ok)

SlideSpec == SlideInit /\ [][SlideNext]_vars

----------------------------------------------------------------------------
\* slide_file_contents as one call: every way the call can end on file f.
\* fault names the system call that fails in this call ("none": no failure
\* other than those the arguments force).

SlideFaults == {"none", "metadata", "fallocate", "mmap", "ftruncate"}

slide_file_contents(f, offset, amount, fault) ==
    LET file_length == Len(f)
        new_length  == file_length + amount
        grown       == posix_fallocate(f, new_length)
        copies(g)   == ptr_copy(g, offset, offset + amount,
                                file_length - offset,
                                round_to_page(file_length))
        noMap       == fault = "mmap" \/ MappingOpenFails(file_length)
        panic(g, step) == [status |-> "panicked", file |-> g, at |-> step]
        end(r, g)   == IF r.status = "ok"
                       THEN [status |-> "returned", file |-> g, at |-> "none"]
                       ELSE [status |-> "killed", file |-> r.file,
                             at |-> "ptr_copy"]
    IN  IF offset + amount < 0 THEN {panic(f, "assert")}
        ELSE IF amount = 0
        THEN {[status |-> "returned", file |-> f, at |-> "none"]}
        ELSE IF fault = "metadata" THEN {panic(f, "metadata")}
        ELSE IF amount < 0
        THEN IF noMap THEN {panic(f, "mmap")}
             ELSE {IF r.status = "ok" /\ fault = "ftruncate"
                   THEN panic(r.file, "ftruncate")
                   ELSE end(r, ftruncate(r.file, new_length))
                   : r \in copies(f)}
        ELSE IF fault = "fallocate" THEN {panic(f, "fallocate")}
             ELSE IF noMap THEN {panic(grown, "mmap")}
             ELSE {end(r, r.file) : r \in copies(grown)}

\* The step-by-step call ends in one of the ends of the call as a whole.
SlideStepsAgree ==
    slidePc \in {"returned", "panicked", "killed"} /\ slideLog # <<>> =>
        \E fault \in SlideFaults :
            \E r \in slide_file_contents(slideCall.before, slideCall.offset,
                                         slideCall.amount, fault) :
                r.status = slidePc /\ r.file = fileBytes

----------------------------------------------------------------------------
\* Text: the first line, the notice detector and the composed line.

WhiteSpace == {" ", "\t", "\n", "\r"}

Copyright == <<"C", "o", "p", "y", "r", "i", "g", "h", "t">>
copyright == <<"c", "o", "p", "y", "r", "i", "g", "h", "t">>
\* U+00A9 in UTF-8
CopyrightSign == <<"xC2", "xA9">>

SetMax(S) == CHOOSE m \in S : \A x \in S : x <= m
SetMin(S) == CHOOSE m \in S : \A x \in S : m <= x

\* the word w stands in s at index i
HasAt(s, i, w) ==
    /\ i >= 1
    /\ i + Len(w) - 1 <= Len(s)
    /\ SubSeq(s, i, i + Len(w) - 1) = w

\* BufRead::read_line: the bytes up to and including the first "\n"
read_line(f) ==
    LET ends == {i \in 1..Len(f) : f[i] = "\n"}
    IN  IF ends = {} THEN f ELSE SubSeq(f, 1, SetMin(ends))

\* str::trim_right
trim_right(s) ==
    LET kept == {i \in 1..Len(s) : s[i] \notin WhiteSpace}
    IN  IF kept = {} THEN <<>> ELSE SubSeq(s, 1, SetMax(kept))

\* ^(\s*/[/*]): the length of the opener the line starts with, 0 if none
OpenerLen(line) ==
    LET solid == {i \in 1..Len(line) : line[i] \notin WhiteSpace}
        first == IF solid = {} THEN Len(line) + 1 ELSE SetMin(solid)
    IN  IF /\ first + 1 <= Len(line)
           /\ line[first] = "/"
           /\ line[first + 1] \in {"/", "*"}
        THEN first + 1 ELSE 0

\* .*[Cc]opyright after the opener ("." matches anything but "\n")
CopyrightFollows(line, from) ==
    \E j \in (from + 1)..Len(line) :
        /\ HasAt(line, j, Copyright) \/ HasAt(line, j, copyright)
        /\ \A k \in (from + 1)..(j - 1) : line[k] # "\n"

\* a detector that knows the capital C only
COPYRIGHT_OPENER_capital(line) ==
    LET n == OpenerLen(line)
    IN  IF n > 0 /\ \E j \in (n + 1)..Len(line) : HasAt(line, j, Copyright)
        THEN [matched |-> TRUE, opener |-> SubSeq(line, 1, n)]
        ELSE [matched |-> FALSE, opener |-> <<>>]

\* COPYRIGHT_OPENER.captures(line): whether it matches, and group 1
COPYRIGHT_OPENER(line) ==
    LET n == OpenerLen(line)
    IN  IF n > 0 /\ CopyrightFollows(line, n)
        THEN [matched |-> TRUE, opener |-> SubSeq(line, 1, n)]
        ELSE [matched |-> FALSE, opener |-> <<>>]

\* Year::to_string (u16, decimal)
RECURSIVE to_string(_)
to_string(y) ==
    IF y < 10 THEN <<ToString(y)>>
    ELSE Append(to_string(y \div 10), ToString(y % 10))

\* Itertools::join
RECURSIVE join(_, _)
join(strs, sep) ==
    IF Len(strs) = 0 THEN <<>>
    ELSE IF Len(strs) = 1 THEN strs[1]
    ELSE strs[1] \o sep \o join(Tail(strs), sep)

\* the line update_file composes from the trimmed old first line
new_first_line(old_first_line, years, org) ==
    LET capture == COPYRIGHT_OPENER(old_first_line)
        opener  == IF capture.matched THEN capture.opener ELSE <<"/", "/">>
    IN  opener \o <<" ">> \o Copyright \o <<" ">> \o CopyrightSign \o <<" ">>
        \o join([i \in 1..Len(years) |-> to_string(years[i])], <<",">>)
        \o <<" ">> \o org \o <<"\n">>

\* seek(Start(0)) and write_all(bytes)
write_at_start(f, bytes) ==
    [i \in 1..(IF Len(f) > Len(bytes) THEN Len(f) ELSE Len(bytes)) |->
        IF i <= Len(bytes) THEN bytes[i] ELSE f[i]]

----------------------------------------------------------------------------
\* update_file as one call: every way the call can end on file f. fault
\* names the system call that fails in this call ("none": no failure other
\* than those the file itself forces).

UpdateFaults == SlideFaults \cup {"open", "read", "seek", "write"}

\* the panic messages that carry the path: expect("Error ... " + path)
NamesPath(step) == step \in {"open", "read", "seek", "write"}

\* the tail taken to start after the line ending, not after the trimmed line
update_file_untrimmed(f, years, org, fault) ==
    LET old_first_line == trim_right(read_line(f))
        line           == new_first_line(old_first_line, years, org)
        replacing_existing_notice == COPYRIGHT_OPENER(old_first_line).matched
        offset         == IF replacing_existing_notice
                          THEN Len(read_line(f)) ELSE 0
        slide_amount   == IF replacing_existing_notice
                          THEN Len(line) - Len(old_first_line) ELSE Len(line)
        call           == [made |-> TRUE, offset |-> offset,
                           amount |-> slide_amount, line |-> line]
        panic(g, step) == [status |-> "panicked", file |-> g, at |-> step,
                           call |-> call]
    IN  IF fault \in {"open", "read"}
        THEN {[status |-> "panicked", file |-> f, at |-> fault,
               call |-> [made |-> FALSE, offset |-> 0, amount |-> 0,
                         line |-> <<>>]]}
        ELSE {IF r.status # "returned"
              THEN [status |-> r.status, file |-> r.file, at |-> r.at,
                    call |-> call]
              ELSE IF fault \in {"seek", "write"} THEN panic(r.file, fault)
              ELSE [status |-> "done", file |-> write_at_start(r.file, line),
                    at |-> "none", call |-> call]
              : r \in slide_file_contents(f, offset, slide_amount,
                        IF fault \in SlideFaults THEN fault ELSE "none")}

\* every end of the call: the file left, and the call it made to
\* slide_file_contents with the line it then writes
update_file(f, years, org, fault) ==
    LET old_first_line == trim_right(read_line(f))
        line           == new_first_line(old_first_line, years, org)
        replacing_existing_notice == COPYRIGHT_OPENER(old_first_line).matched
        offset         == IF replacing_existing_notice
                          THEN Len(old_first_line) ELSE 0
        slide_amount   == IF replacing_existing_notice
                          THEN Len(line) - Len(old_first_line) ELSE Len(line)
        call           == [made |-> TRUE, offset |-> offset,
                           amount |-> slide_amount, line |-> line]
        panic(g, step) == [status |-> "panicked", file |-> g, at |-> step,
                           call |-> call]
    IN  IF fault \in {"open", "read"}
        THEN {[status |-> "panicked", file |-> f, at |-> fault,
               call |-> [made |-> FALSE, offset |-> 0, amount |-> 0,
                         line |-> <<>>]]}
        ELSE {IF r.status # "returned"
              THEN [status |-> r.status, file |-> r.file, at |-> r.at,
                    call |-> call]
              ELSE IF fault \in {"seek", "write"} THEN panic(r.file, fault)
              ELSE [status |-> "done", file |-> write_at_start(r.file, line),
                    at |-> "none", call |-> call]
              : r \in slide_file_contents(f, offset, slide_amount,
                        IF fault \in SlideFaults THEN fault ELSE "none")}

----------------------------------------------------------------------------
\* update_file applied to one file, run after run.

PlainLine == <<"i", "n", "t", " ", "x", ";">>
\* // Copyright 2010 Foo
ShortNotice ==
    <<"/", "/", " ">> \o Copyright
    \o <<" ", "2", "0", "1", "0", " ", "F", "o", "o">>
\* /* copyright 1999-2003, 2005 Foo Bar Baz Inc. */
LongNotice ==
    <<"/", "*", " ">> \o copyright
    \o <<" ", "1", "9", "9", "9", "-", "2", "0", "0", "3", ",", " ",
         "2", "0", "0", "5", " ", "F", "o", "o", " ", "B", "a", "r", " ",
         "B", "a", "z", " ", "I", "n", "c", ".", " ", "*", "/">>
\* an indented opener
IndentedNotice == <<" ", "\t", "/", "/", " ">> \o Copyright
\* upper case is not what the detector looks for
UpperLine ==
    <<"/", "/", " ", "C", "O", "P", "Y", "R", "I", "G", "H", "T", " ",
      "2", "0", "1", "0">>

\* the word before the opener: no notice
WordFirstLine == copyright \o <<" ", "/", "/", " ", "x">>

UpdLines ==
    {<<>>, PlainLine, ShortNotice, LongNotice, IndentedNotice, UpperLine,
     WordFirstLine}
UpdEndings == {<<"\n">>, <<" ", "\n">>, <<"\r", "\n">>}
Body(n) == [i \in 1..n |-> IF i = n THEN "\n" ELSE "y"]
UpdRests == {<<>>, <<"x", "\n">>, Body(BodyLen)}
\* a first line without its newline is the whole file
UpdFiles ==
    UpdLines \cup {l \o e \o r : l \in UpdLines, e \in UpdEndings,
                                 r \in UpdRests}
UpdYears == {<<>>, <<2020>>, <<2010, 2011>>}
UpdOrgs == {<<"B", "a", "z">>}

UpdateInit ==
    /\ fileBytes \in UpdFiles
    /\ updJob \in [years : UpdYears, organization : UpdOrgs]
    /\ updLog = <<>>
    /\ SlideIdle
    /\ MergeIdle
    /\ RunIdle

\* one run of update_file on the file, with the same years and organization;
\* fault is the system call that fails in this run, if any does
UpdateFile(fault) ==
    /\ Len(updLog) < MaxRuns
    /\ \E r \in update_file(fileBytes, updJob.years, updJob.organization,
                            fault) :
          /\ fault # "none" => r.status = "panicked" /\ r.at = fault
          /\ fileBytes' = r.file
          /\ updLog' = Append(updLog,
                 [before |-> fileBytes, after |-> r.file, fault |-> fault,
                  status |-> r.status, at |-> r.at, call |-> r.call])
    /\ UNCHANGED <<updJob, mapping, slidePc, slideCall, slideLog>>
    /\ UNCHANGED <<mergeVars, runVars>>

UpdateNext == \E fault \in UpdateFaults : UpdateFile(fault)

UpdateSpec == UpdateInit /\ [][UpdateNext]_vars

----------------------------------------------------------------------------
\* scan_file: the years on the first line of a file (existing.rs).

Digits == {"0", "1", "2", "3", "4", "5", "6", "7", "8", "9"}
DigitValue(c) ==
    CASE c = "0" -> 0 [] c = "1" -> 1 [] c = "2" -> 2 [] c = "3" -> 3
      [] c = "4" -> 4 [] c = "5" -> 5 [] c = "6" -> 6 [] c = "7" -> 7
      [] c = "8" -> 8 [] c = "9" -> 9

\* U+2013 and U+2014 in UTF-8
EnDash == <<"xE2", "x80", "x93">>
EmDash == <<"xE2", "x80", "x94">>

\* a decimal digit outside ASCII: ARABIC-INDIC DIGIT ONE, U+0661, in UTF-8
ArabicIndicOne == <<"xD9", "xA1">>

\* \d at index i: the number of bytes of the decimal digit there (the class
\* is Unicode's Nd), 0 if there is none
DigitLen(s, i) ==
    IF i >= 1 /\ i <= Len(s) /\ s[i] \in Digits THEN 1
    ELSE IF HasAt(s, i, ArabicIndicOne) THEN 2
    ELSE 0

\* \d{n} at index i: the index after the n digits, 0 if there are not n
RECURSIVE DigitsEnd(_, _, _)
DigitsEnd(s, i, n) ==
    IF n = 0 THEN i
    ELSE IF DigitLen(s, i) = 0 THEN 0
    ELSE DigitsEnd(s, i + DigitLen(s, i), n - 1)

\* \d{4} at index i
FourDigits(s, i) == i >= 1 /\ DigitsEnd(s, i, 4) > 0

\* str::parse::<Year> of the four digits at index i is Ok: it takes ASCII
\* digits only
ParseOk(s, i) == \A k \in i..(DigitsEnd(s, i, 4) - 1) : s[k] \in Digits

\* str::parse::<Year> of the four digits at index i, when it is Ok
ParseYear(s, i) ==
    1000 * DigitValue(s[i]) + 100 * DigitValue(s[i + 1])
    + 10 * DigitValue(s[i + 2]) + DigitValue(s[i + 3])

\* \s*: the first index from i on that holds no white space
SkipSpace(s, i) ==
    LET solid == {k \in i..Len(s) : s[k] \notin WhiteSpace}
    IN  IF solid = {} THEN Len(s) + 1 ELSE SetMin(solid)

\* [-–—] at index i: the number of bytes of the dash there, 0 if none
DashLen(s, i) ==
    IF HasAt(s, i, <<"-">>) THEN 1
    ELSE IF HasAt(s, i, EnDash) \/ HasAt(s, i, EmDash) THEN 3
    ELSE 0

\* for i in start .. end + 1
YearRange(start, end) == [k \in 1..(end - start + 1) |-> start + k - 1]

\* YEAR_OR_RANGE.captures_iter(first_line), from index i on: the range
\* alternative is tried first, then the bare year; matches do not overlap
RECURSIVE YearsFrom(_, _)
YearsFrom(s, i) ==
    IF i > Len(s) THEN <<>>
    ELSE IF ~FourDigits(s, i) THEN YearsFrom(s, i + 1)
    ELSE LET dash == SkipSpace(s, DigitsEnd(s, i, 4))
             last == SkipSpace(s, dash + DashLen(s, dash))
         IN  IF DashLen(s, dash) > 0 /\ FourDigits(s, last)
             THEN YearRange(ParseYear(s, i), ParseYear(s, last))
                  \o YearsFrom(s, DigitsEnd(s, last, 4))
             ELSE <<ParseYear(s, i)>> \o YearsFrom(s, DigitsEnd(s, i, 4))

\* one of the parse().unwrap() of the same matches panics
RECURSIVE ParsePanics(_, _)
ParsePanics(s, i) ==
    IF i > Len(s) THEN FALSE
    ELSE IF ~FourDigits(s, i) THEN ParsePanics(s, i + 1)
    ELSE LET dash == SkipSpace(s, DigitsEnd(s, i, 4))
             last == SkipSpace(s, dash + DashLen(s, dash))
         IN  IF DashLen(s, dash) > 0 /\ FourDigits(s, last)
             THEN \/ ~ParseOk(s, i)
                  \/ ~ParseOk(s, last)
                  \/ ParsePanics(s, DigitsEnd(s, last, 4))
             ELSE \/ ~ParseOk(s, i)
                  \/ ParsePanics(s, DigitsEnd(s, i, 4))

\* COPYRIGHT.is_match(first_line): ^\s*/[/*].*[Cc]opyright
COPYRIGHT(first_line) ==
    OpenerLen(first_line) > 0
    /\ CopyrightFollows(first_line, OpenerLen(first_line))

\* what scan_file finds in file f: whether the first line is a notice, the
\* years on it, or a panic on the way
scan_file(f) ==
    LET first_line == read_line(f)
    IN  IF ~COPYRIGHT(first_line)
        THEN [notice |-> FALSE, panicked |-> FALSE, years |-> <<>>]
        ELSE IF ParsePanics(first_line, 1)
        THEN [notice |-> TRUE, panicked |-> TRUE, years |-> <<>>]
        ELSE [notice |-> TRUE, panicked |-> FALSE,
              years |-> YearsFrom(first_line, 1)]

----------------------------------------------------------------------------
\* main: trim_header_years and combine_year_maps.


Range(q) == {q[i] : i \in 1..Len(q)}

\* Vec::retain(|&y| y <= first_year) on every value of the map
trim_header_years_strict(header, first_year) ==
    [p \in DOMAIN header |->
        SelectSeq(header[p], LAMBDA y : y < first_year)]
trim_header_years(header, first_year) ==
    [p \in DOMAIN header |->
        SelectSeq(header[p], LAMBDA y : y <= first_year)]

\* Vec::sort
RECURSIVE InsertSorted(_, _)
InsertSorted(q, y) ==
    IF q = <<>> THEN <<y>>
    ELSE IF y < Head(q) THEN <<y>> \o q
    ELSE <<Head(q)>> \o InsertSorted(Tail(q), y)
\* the list left in the order it came in
sort_skipped(q) == q

RECURSIVE sort(_)
sort(q) == IF q = <<>> THEN <<>> ELSE InsertSorted(sort(Tail(q)), Head(q))

\* Vec::dedup: consecutive equal elements collapse into the first
RECURSIVE dedup(_)
dedup(q) ==
    IF Len(q) <= 1 THEN q
    ELSE IF q[1] = q[2] THEN dedup(Tail(q))
    ELSE <<q[1]>> \o dedup(Tail(q))

\* a merge that forgets the keys only the smaller map has
combine_year_maps_known_keys(header, git) ==
    LET gitLarger == Cardinality(DOMAIN git) > Cardinality(DOMAIN header)
        larger    == IF gitLarger THEN git ELSE header
        smaller   == IF gitLarger THEN header ELSE git
    IN  [k \in DOMAIN larger |->
            dedup(sort(IF k \in DOMAIN smaller
                       THEN larger[k] \o smaller[k] ELSE larger[k]))]
\* combine_year_maps: the smaller map is merged into the larger, then every
\* value is sorted and deduplicated
combine_year_maps(header, git) ==
    LET gitLarger == Cardinality(DOMAIN git) > Cardinality(DOMAIN header)
        larger    == IF gitLarger THEN git ELSE header
        smaller   == IF gitLarger THEN header ELSE git
        entry(k)  == IF k \in DOMAIN larger THEN larger[k] ELSE <<>>
        merged    == [k \in DOMAIN larger \cup DOMAIN smaller |->
                        IF k \in DOMAIN smaller
                        THEN entry(k) \o smaller[k] ELSE entry(k)]
    IN  [k \in DOMAIN merged |-> dedup(sort(merged[k]))]

\* main.rs:141
Trim ==
    /\ mainPc = "trim"
    /\ header_years' = trim_header_years(header_years, first_git_year)
    /\ mainPc' = "combine"
    /\ UNCHANGED <<first_git_year, git_years, joined, all_years>>
    /\ UNCHANGED <<slideVars, updVars, runVars>>

\* main.rs:143
Combine ==
    /\ mainPc = "combine"
    /\ all_years' = combine_year_maps(header_years, git_years)
    /\ mainPc' = "update_headers"
    /\ UNCHANGED <<first_git_year, header_years, git_years, joined>>
    /\ UNCHANGED <<slideVars, updVars, runVars>>

\* Year lists as the scans deliver them: unsorted, with repeats
YearLists ==
    {<<>>, <<2009>>, <<2011, 2010>>, <<2010, 2009, 2010>>,
     <<2012, 2009, 2011>>}
YearMaps == UNION {[S -> YearLists] : S \in SUBSET Paths}
FirstYears == {2010, 2011}

MergeInit ==
    /\ mainPc = "trim"
    /\ first_git_year \in FirstYears
    /\ header_years \in YearMaps
    /\ git_years \in YearMaps
    /\ joined = [header |-> header_years, git |-> git_years]
    /\ all_years = EmptyMap
    /\ fileBytes = <<>>
    /\ SlideIdle
    /\ UpdateIdle
    /\ RunIdle

MergeNext == Trim \/ Combine

MergeSpec == MergeInit /\ [][MergeNext]_vars

----------------------------------------------------------------------------
\* A whole run: main, the two scans, the merge and the rewriting.

\* the process is running: it has not exited and has not been killed
Alive == mainPc \notin {"off", "exit0", "exit1", "panicked", "killed"}

Missing == [exists |-> FALSE, bytes |-> <<>>]
File(b) == [exists |-> TRUE, bytes |-> b]
RunFiles == {<<>>, ShortNotice \o <<"\n">>, PlainLine \o <<"\n">>}
RunOrg == <<"B", "a", "z">>
\* the year of the first commit: before the year of ShortNotice, and that
\* year itself
RunFirstYears == {2009, 2010}
\* what the history scan can answer: years newest first, with repeats
GitMaps ==
    {EmptyMap, [p \in Paths |-> <<2021, 2020, 2020>>],
     [p \in {PathName(1)} |-> <<2012>>]}

Init ==
    /\ mainPc = "args"
    /\ fs \in [Paths -> {File(b) : b \in RunFiles} \cup {Missing}]
    /\ fsStart = fs
    /\ num_cpus \in {1, NumPaths}
    /\ organization = <<>>
    /\ first_git_year = 0
    /\ header_years = EmptyMap
    /\ git_years = EmptyMap
    /\ joined = [header |-> EmptyMap, git |-> EmptyMap]
    /\ all_years = EmptyMap
    /\ gitPc = "off"
    /\ gitResult = EmptyMap
    /\ hdrPc = "off"
    /\ scanPc = [p \in Paths |-> "off"]
    /\ scanShared = [paths_remaining |-> 0, result |-> EmptyMap]
    /\ scanMutex = "free"
    /\ scanSignal = FALSE
    /\ taskPc = [p \in Paths |-> "off"]
    /\ paths_remaining = 0
    /\ updMutex = "free"
    /\ updSignal = FALSE
    /\ reports = {}
    /\ fileBytes = <<>>
    /\ SlideIdle
    /\ UpdateIdle

mainRest == <<first_git_year, header_years, git_years, joined, all_years>>
scanVars == <<hdrPc, scanPc, scanShared, scanMutex, scanSignal>>
taskVars == <<taskPc, paths_remaining, updMutex, updSignal>>

\* ---- main.rs:101-126: the startup checks

\* matches.opt_str("o")
ParseArgs(has_org) ==
    /\ mainPc = "args"
    /\ IF has_org
       THEN organization' = RunOrg /\ mainPc' = "repo_top"
       ELSE mainPc' = "exit1" /\ UNCHANGED organization
    /\ UNCHANGED <<mainRest, fs, fsStart, num_cpus, gitPc, gitResult,
                   scanVars, taskVars, reports>>
    /\ UNCHANGED <<slideVars, updVars>>

\* assert_at_repo_top()
AssertAtRepoTop(ok) ==
    /\ mainPc = "repo_top"
    /\ mainPc' = IF ok THEN "ignores" ELSE "exit1"
    /\ UNCHANGED <<mainRest, runVars>>
    /\ UNCHANGED <<slideVars, updVars>>

\* get_commits_to_ignore(): every commit-ish resolves, or exit(1)
GetCommitsToIgnore(ok) ==
    /\ mainPc = "ignores"
    /\ mainPc' = IF ok THEN "first_year" ELSE "exit1"
    /\ UNCHANGED <<mainRest, runVars>>
    /\ UNCHANGED <<slideVars, updVars>>

\* get_first_commit_year(): git log fails (exit(1)), its output holds no
\* year (a panic), or the year
GetFirstCommitYear(outcome, year) ==
    /\ mainPc = "first_year"
    /\ IF outcome = "ok"
       THEN first_git_year' = year /\ mainPc' = "spawn"
       ELSE /\ mainPc' = IF outcome = "git_failed" THEN "exit1"
                         ELSE "panicked"
            /\ UNCHANGED first_git_year
    /\ UNCHANGED <<header_years, git_years, joined, all_years, runVars>>
    /\ UNCHANGED <<slideVars, updVars>>

\* ---- main.rs:128-138: the two scans

\* thread::spawn, twice
Spawn ==
    /\ mainPc = "spawn"
    /\ gitPc' = "running"
    /\ hdrPc' = "enter"
    /\ mainPc' = "join_header"
    /\ UNCHANGED <<mainRest, organization, fs, fsStart, num_cpus, gitResult,
                   scanPc, scanShared, scanMutex, scanSignal, taskVars,
                   reports>>
    /\ UNCHANGED <<slideVars, updVars>>

\* history::get_year_map: the collaborator's answer
GitReturn(answer) ==
    /\ Alive
    /\ gitPc = "running"
    /\ gitResult' = answer
    /\ gitPc' = "returned"
    /\ UNCHANGED <<mergeVars, organization, fs, fsStart, num_cpus, scanVars,
                   taskVars, reports>>
    /\ UNCHANGED <<slideVars, updVars>>

\* existing.rs:41-44: the shared state
HdrEnter ==
    /\ Alive
    /\ hdrPc = "enter"
    /\ scanShared' = [paths_remaining |-> Cardinality(Paths),
                      result |-> EmptyMap]
    /\ hdrPc' = IF Paths = {} THEN "lock" ELSE "launch"
    /\ UNCHANGED <<mergeVars, organization, fs, fsStart, num_cpus, gitPc,
                   gitResult, scanPc, scanMutex, scanSignal, taskVars,
                   reports>>
    /\ UNCHANGED <<slideVars, updVars>>

\* existing.rs:51-60: thread_pool.execute(|| scan_file(p, ss))
HdrLaunch(p) ==
    /\ Alive
    /\ hdrPc = "launch"
    /\ scanPc[p] = "off"
    /\ scanPc' = [scanPc EXCEPT ![p] = "queued"]
    /\ hdrPc' = IF \A q \in Paths \ {p} : scanPc[q] # "off"
                THEN "lock" ELSE "launch"
    /\ UNCHANGED <<mergeVars, organization, fs, fsStart, num_cpus, gitPc,
                   gitResult, scanShared, scanMutex, scanSignal, taskVars,
                   reports>>
    /\ UNCHANGED <<slideVars, updVars>>

\* a pool thread takes the task: existing.rs:71-74, open and read_line,
\* each unwrapped, and existing.rs:92-104, the years parsed and unwrapped
ScanRead(p, ok) ==
    /\ Alive
    /\ scanPc[p] = "queued"
    /\ Cardinality({q \in Paths : scanPc[q] \in {"scanned", "locked"}})
           < num_cpus
    /\ ~ok => Cardinality(reports) < MaxFaults
    /\ IF fs[p].exists /\ ok /\ ~scan_file(fs[p].bytes).panicked
       THEN /\ scanPc' = [scanPc EXCEPT ![p] = "scanned"]
            /\ UNCHANGED reports
       ELSE /\ scanPc' = [scanPc EXCEPT ![p] = "panicked"]
            /\ reports' = reports \cup
                   {[stage |-> "scan", path |-> p,
                     at |-> IF ~fs[p].exists THEN "open"
                            ELSE IF ~ok THEN "read" ELSE "parse",
                     names_path |-> FALSE]}
    /\ UNCHANGED <<mergeVars, organization, fs, fsStart, num_cpus, gitPc,
                   gitResult, hdrPc, scanShared, scanMutex, scanSignal,
                   taskVars>>
    /\ UNCHANGED <<slideVars, updVars>>

\* ss.mutex.lock(), existing.rs:84 and 107
ScanLock(p) ==
    /\ Alive
    /\ scanPc[p] = "scanned"
    /\ scanMutex = "free"
    /\ scanMutex' = p
    /\ scanPc' = [scanPc EXCEPT ![p] = "locked"]
    /\ UNCHANGED <<mergeVars, organization, fs, fsStart, num_cpus, gitPc,
                   gitResult, hdrPc, scanShared, scanSignal, taskVars,
                   reports>>
    /\ UNCHANGED <<slideVars, updVars>>

\* existing.rs:83-88 and 107-111: the insert when the first line is a
\* notice, the decrement, the notify_all, the unlock
ScanFinish(p) ==
    /\ Alive
    /\ scanPc[p] = "locked"
    /\ LET found == scan_file(fs[p].bytes)
           left  == scanShared.paths_remaining - 1
           res   == scanShared.result
       IN  /\ scanShared' =
                  [paths_remaining |-> left,
                   result |-> IF found.notice
                              THEN [q \in DOMAIN res \cup {p} |->
                                       IF q = p THEN found.years ELSE res[q]]
                              ELSE res]
           /\ scanSignal' = (scanSignal \/ (left = 0 /\ hdrPc = "waiting"))
    /\ scanMutex' = "free"
    /\ scanPc' = [scanPc EXCEPT ![p] = "done"]
    /\ UNCHANGED <<mergeVars, organization, fs, fsStart, num_cpus, gitPc,
                   gitResult, hdrPc, taskVars, reports>>
    /\ UNCHANGED <<slideVars, updVars>>

\* existing.rs:63: shared_state.mutex.lock(), and the lock taken again
\* when cv.wait returns
HdrLock ==
    /\ Alive
    /\ hdrPc = "lock"
    /\ scanMutex = "free"
    /\ scanMutex' = "waiter"
    /\ hdrPc' = "check"
    /\ UNCHANGED <<mergeVars, organization, fs, fsStart, num_cpus, gitPc,
                   gitResult, scanPc, scanShared, scanSignal, taskVars,
                   reports>>
    /\ UNCHANGED <<slideVars, updVars>>

\* existing.rs:64-67: while guard.paths_remaining > 0 { cv.wait } and the
\* return of the result
HdrCheck ==
    /\ Alive
    /\ hdrPc = "check"
    /\ hdrPc' = IF scanShared.paths_remaining > 0 THEN "waiting"
                ELSE "returned"
    /\ scanMutex' = "free"
    /\ scanSignal' = FALSE
    /\ UNCHANGED <<mergeVars, organization, fs, fsStart, num_cpus, gitPc,
                   gitResult, scanPc, scanShared, taskVars, reports>>
    /\ UNCHANGED <<slideVars, updVars>>

\* cv.wait returns: woken by notify_all, or spuriously
HdrWake(spurious) ==
    /\ Alive
    /\ hdrPc = "waiting"
    /\ spurious \/ scanSignal
    /\ scanSignal' = FALSE
    /\ hdrPc' = "lock"
    /\ UNCHANGED <<mergeVars, organization, fs, fsStart, num_cpus, gitPc,
                   gitResult, scanPc, scanShared, scanMutex, taskVars,
                   reports>>
    /\ UNCHANGED <<slideVars, updVars>>

\* main.rs:137
JoinHeader ==
    /\ mainPc = "join_header"
    /\ hdrPc = "returned"
    /\ header_years' = scanShared.result
    /\ mainPc' = "join_git"
    /\ UNCHANGED <<first_git_year, git_years, joined, all_years, runVars>>
    /\ UNCHANGED <<slideVars, updVars>>

\* a join that does not wait for the history thread
JoinGitEarly ==
    /\ mainPc = "join_git"
    /\ git_years' = gitResult
    /\ joined' = [header |-> header_years, git |-> gitResult]
    /\ mainPc' = "trim"
    /\ UNCHANGED <<first_git_year, header_years, all_years, runVars>>
    /\ UNCHANGED <<slideVars, updVars>>
\* main.rs:138
JoinGit ==
    /\ mainPc = "join_git"
    /\ gitPc = "returned"
    /\ git_years' = gitResult
    /\ joined' = [header |-> header_years, git |-> gitResult]
    /\ mainPc' = "trim"
    /\ UNCHANGED <<first_git_year, header_years, all_years, runVars>>
    /\ UNCHANGED <<slideVars, updVars>>

\* ---- update.rs:29-51: update_headers

\* update.rs:31-39: the shared state
UpdateHeadersEnter ==
    /\ mainPc = "update_headers"
    /\ paths_remaining' = Cardinality(DOMAIN all_years)
    /\ mainPc' = IF DOMAIN all_years = {} THEN "lock" ELSE "launch"
    /\ UNCHANGED <<mainRest, organization, fs, fsStart, num_cpus, gitPc,
                   gitResult, scanVars, taskPc, updMutex, updSignal, reports>>
    /\ UNCHANGED <<slideVars, updVars>>

\* a loop that would hand a key to the pool again after its task is done
LaunchRepeating(p) ==
    /\ mainPc = "launch"
    /\ p \in DOMAIN all_years
    /\ taskPc[p] \in {"off", "done"}
    /\ taskPc' = [taskPc EXCEPT ![p] = "queued"]
    /\ mainPc' = IF \A q \in DOMAIN all_years \ {p} : taskPc[q] # "off"
                 THEN "lock" ELSE "launch"
    /\ UNCHANGED <<mainRest, organization, fs, fsStart, num_cpus, gitPc,
                   gitResult, scanVars, paths_remaining, updMutex, updSignal,
                   reports>>
    /\ UNCHANGED <<slideVars, updVars>>

\* update.rs:41-44: thread_pool.execute(|| update_file(k, v, ss))
Launch(p) ==
    /\ mainPc = "launch"
    /\ p \in DOMAIN all_years
    /\ taskPc[p] = "off"
    /\ taskPc' = [taskPc EXCEPT ![p] = "queued"]
    /\ mainPc' = IF \A q \in DOMAIN all_years \ {p} : taskPc[q] # "off"
                 THEN "lock" ELSE "launch"
    /\ UNCHANGED <<mainRest, organization, fs, fsStart, num_cpus, gitPc,
                   gitResult, scanVars, paths_remaining, updMutex, updSignal,
                   reports>>
    /\ UNCHANGED <<slideVars, updVars>>

Report(p, step) ==
    [stage |-> "update", path |-> p, at |-> step,
     names_path |-> NamesPath(step)]

\* a pool thread takes the task: update.rs:56-65, open and read_line
TaskOpen(p, fault) ==
    /\ Alive
    /\ taskPc[p] = "queued"
    /\ Cardinality({q \in Paths : taskPc[q] \in {"open", "written", "locked"}})
           < num_cpus
    /\ fault # "none" => Cardinality(reports) < MaxFaults
    /\ IF fs[p].exists /\ fault = "none"
       THEN /\ taskPc' = [taskPc EXCEPT ![p] = "open"]
            /\ UNCHANGED reports
       ELSE /\ taskPc' = [taskPc EXCEPT ![p] = "panicked"]
            /\ reports' = reports \cup
                   {Report(p, IF fs[p].exists THEN fault ELSE "open")}
    /\ UNCHANGED <<mergeVars, organization, fs, fsStart, num_cpus, gitPc,
                   gitResult, scanVars, paths_remaining, updMutex, updSignal>>
    /\ UNCHANGED <<slideVars, updVars>>

\* update.rs:67-116: the rest of update_file up to the write
TaskRewrite(p, fault) ==
    /\ Alive
    /\ taskPc[p] = "open"
    /\ fault # "none" => Cardinality(reports) < MaxFaults
    /\ \E r \in update_file(fs[p].bytes, all_years[p], organization, fault) :
          /\ fault # "none" => r.status = "panicked" /\ r.at = fault
          /\ fs' = [fs EXCEPT ![p].bytes = r.file]
          /\ taskPc' = [taskPc EXCEPT ![p] =
                           IF r.status = "done" THEN "written" ELSE r.status]
          /\ reports' = IF r.status = "panicked"
                        THEN reports \cup {Report(p, r.at)} ELSE reports
          /\ mainPc' = IF r.status = "killed" THEN "killed" ELSE mainPc
    /\ UNCHANGED <<mainRest, organization, fsStart, num_cpus, gitPc,
                   gitResult, scanVars, paths_remaining, updMutex, updSignal>>
    /\ UNCHANGED <<slideVars, updVars>>

\* update.rs:119: ss.paths_remaining.lock()
TaskLock(p) ==
    /\ Alive
    /\ taskPc[p] = "written"
    /\ updMutex = "free"
    /\ updMutex' = p
    /\ taskPc' = [taskPc EXCEPT ![p] = "locked"]
    /\ UNCHANGED <<mergeVars, organization, fs, fsStart, num_cpus, gitPc,
                   gitResult, scanVars, paths_remaining, updSignal, reports>>
    /\ UNCHANGED <<slideVars, updVars>>

\* a decrement that notifies nobody
TaskFinishSilent(p) ==
    /\ Alive
    /\ taskPc[p] = "locked"
    /\ paths_remaining' = paths_remaining - 1
    /\ updMutex' = "free"
    /\ taskPc' = [taskPc EXCEPT ![p] = "done"]
    /\ UNCHANGED <<mergeVars, organization, fs, fsStart, num_cpus, gitPc,
                   gitResult, scanVars, updSignal, reports>>
    /\ UNCHANGED <<slideVars, updVars>>

\* update.rs:120-122: the decrement, the notify_all, the unlock
TaskFinish(p) ==
    /\ Alive
    /\ taskPc[p] = "locked"
    /\ paths_remaining' = paths_remaining - 1
    /\ updSignal' = (updSignal \/ (paths_remaining' = 0 /\ mainPc = "waiting"))
    /\ updMutex' = "free"
    /\ taskPc' = [taskPc EXCEPT ![p] = "done"]
    /\ UNCHANGED <<mergeVars, organization, fs, fsStart, num_cpus, gitPc,
                   gitResult, scanVars, reports>>
    /\ UNCHANGED <<slideVars, updVars>>

\* update.rs:47: paths_remaining.lock(), and the lock taken again when
\* cv.wait returns
MainLock ==
    /\ mainPc = "lock"
    /\ updMutex = "free"
    /\ updMutex' = "waiter"
    /\ mainPc' = "check"
    /\ UNCHANGED <<mainRest, organization, fs, fsStart, num_cpus, gitPc,
                   gitResult, scanVars, taskPc, paths_remaining, updSignal,
                   reports>>
    /\ UNCHANGED <<slideVars, updVars>>

\* a wait that ends one task early
MainCheckEarly ==
    /\ mainPc = "check"
    /\ mainPc' = IF paths_remaining > 1 THEN "waiting" ELSE "exit0"
    /\ updMutex' = "free"
    /\ updSignal' = FALSE
    /\ UNCHANGED <<mainRest, organization, fs, fsStart, num_cpus, gitPc,
                   gitResult, scanVars, taskPc, paths_remaining, reports>>
    /\ UNCHANGED <<slideVars, updVars>>

\* update.rs:48-51: while *remaining > 0 { cv.wait }, then the return of
\* update_headers and of main
MainCheck ==
    /\ mainPc = "check"
    /\ mainPc' = IF paths_remaining > 0 THEN "waiting" ELSE "exit0"
    /\ updMutex' = "free"
    /\ updSignal' = FALSE
    /\ UNCHANGED <<mainRest, organization, fs, fsStart, num_cpus, gitPc,
                   gitResult, scanVars, taskPc, paths_remaining, reports>>
    /\ UNCHANGED <<slideVars, updVars>>

\* cv.wait returns: woken by notify_all, or spuriously
MainWake(spurious) ==
    /\ mainPc = "waiting"
    /\ spurious \/ updSignal
    /\ updSignal' = FALSE
    /\ mainPc' = "lock"
    /\ UNCHANGED <<mainRest, organization, fs, fsStart, num_cpus, gitPc,
                   gitResult, scanVars, taskPc, paths_remaining, updMutex,
                   reports>>
    /\ UNCHANGED <<slideVars, updVars>>

RewriteFaults == UpdateFaults \ {"open", "read"}

Next ==
    \/ \E has_org \in BOOLEAN : ParseArgs(has_org)
    \/ \E ok \in BOOLEAN : AssertAtRepoTop(ok)
    \/ \E ok \in BOOLEAN : GetCommitsToIgnore(ok)
    \/ \E outcome \in {"ok", "git_failed", "no_year"},
          year \in RunFirstYears : GetFirstCommitYear(outcome, year)
    \/ Spawn
    \/ \E answer \in GitMaps : GitReturn(answer)
    \/ HdrEnter
    \/ \E p \in Paths : HdrLaunch(p)
    \/ \E p \in Paths, ok \in BOOLEAN : ScanRead(p, ok)
    \/ \E p \in Paths : ScanLock(p)
    \/ \E p \in Paths : ScanFinish(p)
    \/ HdrLock
    \/ HdrCheck
    \/ \E spurious \in BOOLEAN : HdrWake(spurious)
    \/ JoinHeader
    \/ JoinGit
    \/ Trim
    \/ Combine
    \/ UpdateHeadersEnter
    \/ \E p \in Paths : Launch(p)
    \/ \E p \in Paths, fault \in {"none", "open", "read"} :
          TaskOpen(p, fault)
    \/ \E p \in Paths, fault \in RewriteFaults : TaskRewrite(p, fault)
    \/ \E p \in Paths : TaskLock(p)
    \/ \E p \in Paths : TaskFinish(p)
    \/ MainLock
    \/ MainCheck
    \/ \E spurious \in BOOLEAN : MainWake(spurious)

Spec == Init /\ [][Next]_vars

\* The run under a scheduler that lets every thread run: a thread that can
\* take a step again and again takes one in the end. The fairness is strong
\* because a thread at a lock can take it only while no other thread holds
\* it. A wakeup that nothing signalled is never owed, nor is a failure.
MainThread ==
    \/ UpdateHeadersEnter
    \/ \E p \in Paths : Launch(p)
    \/ MainLock
    \/ MainCheck
    \/ MainWake(FALSE)
HeaderThread ==
    \/ HdrEnter
    \/ \E p \in Paths : HdrLaunch(p)
    \/ HdrLock
    \/ HdrCheck
    \/ HdrWake(FALSE)
\* the steps of ScanRead and ScanFinish by what they do to the task: each
\* can be taken whenever its guard holds, and no other step takes a task
\* from there
ScanReadEnds(p) ==
    /\ Alive
    /\ scanPc[p] = "queued"
    /\ Cardinality({q \in Paths : scanPc[q] \in {"scanned", "locked"}})
           < num_cpus
    /\ \E end \in {"scanned", "panicked"} :
           scanPc' = [scanPc EXCEPT ![p] = end]
ScanFinishEnds(p) ==
    /\ Alive
    /\ scanPc[p] = "locked"
    /\ scanPc' = [scanPc EXCEPT ![p] = "done"]
ScanPool ==
    \E p \in Paths :
        \/ ScanReadEnds(p)
        \/ ScanLock(p)
        \/ ScanFinishEnds(p)
\* the step of TaskRewrite, likewise
RewriteEnds(p) ==
    /\ Alive
    /\ taskPc[p] = "open"
    /\ \E end \in {"written", "panicked", "killed"} :
           taskPc' = [taskPc EXCEPT ![p] = end]
UpdatePool ==
    \E p \in Paths :
        \/ TaskOpen(p, "none")
        \/ RewriteEnds(p)
        \/ TaskLock(p)
        \/ TaskFinish(p)

\* the steps of a run in which no system call is made to fail: what fails is
\* what the files themselves force. The first commit is of the year of the
\* notices, so that the header years stay in the map.
FairNext ==
    \/ ParseArgs(TRUE)
    \/ AssertAtRepoTop(TRUE)
    \/ GetCommitsToIgnore(TRUE)
    \/ GetFirstCommitYear("ok", SetMax(RunFirstYears))
    \/ Spawn
    \/ \E answer \in GitMaps : GitReturn(answer)
    \/ HdrEnter
    \/ \E p \in Paths : HdrLaunch(p)
    \/ \E p \in Paths : ScanRead(p, TRUE)
    \/ \E p \in Paths : ScanLock(p)
    \/ \E p \in Paths : ScanFinish(p)
    \/ HdrLock
    \/ HdrCheck
    \/ \E spurious \in BOOLEAN : HdrWake(spurious)
    \/ JoinHeader
    \/ JoinGit
    \/ Trim
    \/ Combine
    \/ UpdateHeadersEnter
    \/ \E p \in Paths : Launch(p)
    \/ \E p \in Paths : TaskOpen(p, "none")
    \/ \E p \in Paths : TaskRewrite(p, "none")
    \/ \E p \in Paths : TaskLock(p)
    \/ \E p \in Paths : TaskFinish(p)
    \/ MainLock
    \/ MainCheck
    \/ \E spurious \in BOOLEAN : MainWake(spurious)

FairSpec ==
    /\ Init
    /\ [][FairNext]_vars
    /\ SF_vars(MainThread)
    /\ SF_vars(HeaderThread)
    /\ SF_scanPc(ScanPool)
    /\ SF_taskPc(UpdatePool)

----------------------------------------------------------------------------
\* The header scan on its own: get_year_map_thread over files whose first
\* lines carry years in every form.

Y2010 == <<"2", "0", "1", "0">>
Y2012 == <<"2", "0", "1", "2">>
Y2014 == <<"2", "0", "1", "4">>
\* what follows "// Copyright " on the first line
YearTexts ==
    {<<>>,
     Y2010,
     Y2010 \o <<",", " ">> \o Y2012,
     Y2010 \o <<"-">> \o Y2012,
     Y2010 \o EnDash \o Y2012,
     Y2010 \o <<" ">> \o EmDash \o <<" ">> \o Y2012,
     Y2010 \o <<"-">> \o Y2012 \o <<",", " ">> \o Y2014,
     Y2010 \o <<"-">>,
     Y2012 \o <<"-">> \o Y2010,
     Y2010 \o <<"-">> \o Y2012 \o <<"-">> \o Y2014,
     Y2010 \o <<"5">>,
     Y2010 \o Y2012,
     ArabicIndicOne \o ArabicIndicOne \o ArabicIndicOne \o ArabicIndicOne}
ScanFiles ==
    {<<"/", "/", " ">> \o Copyright \o <<" ">> \o t \o <<"\n">> :
        t \in YearTexts}
    \cup {<<"x", " ", "=", " ">> \o Y2010 \o <<";", "\n">>}

\* the state in which main has spawned the two scans (main.rs:128-134)
ScanInit ==
    /\ mainPc = "join_header"
    /\ fs \in {f \in [Paths -> {File(b) : b \in RunFiles \cup ScanFiles}] :
                  /\ f[PathName(1)].bytes \in ScanFiles
                  /\ \A p \in Paths \ {PathName(1)} :
                         f[p].bytes \in RunFiles}
    /\ fsStart = fs
    /\ num_cpus \in {1, NumPaths}
    /\ organization = RunOrg
    /\ first_git_year \in RunFirstYears
    /\ header_years = EmptyMap
    /\ git_years = EmptyMap
    /\ joined = [header |-> EmptyMap, git |-> EmptyMap]
    /\ all_years = EmptyMap
    /\ gitPc = "running"
    /\ gitResult = EmptyMap
    /\ hdrPc = "enter"
    /\ scanPc = [p \in Paths |-> "off"]
    /\ scanShared = [paths_remaining |-> 0, result |-> EmptyMap]
    /\ scanMutex = "free"
    /\ scanSignal = FALSE
    /\ taskPc = [p \in Paths |-> "off"]
    /\ paths_remaining = 0
    /\ updMutex = "free"
    /\ updSignal = FALSE
    /\ reports = {}
    /\ fileBytes = <<>>
    /\ SlideIdle
    /\ UpdateIdle

ScanNext ==
    \/ HdrEnter
    \/ \E p \in Paths : HdrLaunch(p)
    \/ \E p \in Paths, ok \in BOOLEAN : ScanRead(p, ok)
    \/ \E p \in Paths : ScanLock(p)
    \/ \E p \in Paths : ScanFinish(p)
    \/ HdrLock
    \/ HdrCheck
    \/ \E spurious \in BOOLEAN : HdrWake(spurious)

ScanSpec == ScanInit /\ [][ScanNext]_vars

----------------------------------------------------------------------------
\* Claims about slide_file_contents.

\* C1 (as claimed): whenever slide_file_contents(file, offset, amount)
\* returns, with offset in [0, file_length] and offset + amount >= 0, the
\* file is file_length + amount bytes long and its bytes at
\* [offset + amount, file_length + amount) are the bytes that were at
\* [offset, file_length) before the call.
C1_SlideKeepsTail ==
    slidePc = "returned" /\ slideLog # <<>> =>
        /\ Len(fileBytes) = slideCall.file_length + slideCall.amount
        /\ \A k \in slideCall.offset .. slideCall.file_length - 1 :
               fileBytes[k + slideCall.amount + 1] = slideCall.before[k + 1]

\* C8 (as claimed): slide_file_contents(f, offset, +d) immediately followed
\* by slide_file_contents(f, offset, -d), d >= 0, leaves the file as it was
\* before the first call.
C8_SlideBackRestores ==
    /\ Len(slideLog) = 2
    /\ slideLog[1].amount >= 0
    /\ slideLog[2].offset = slideLog[1].offset
    /\ slideLog[2].amount = -slideLog[1].amount
    /\ slidePc \in {"returned", "killed"}
    => /\ slidePc = "returned"
       /\ fileBytes = slideLog[1].before

----------------------------------------------------------------------------
\* Claims about update_file.

\* the notice text without a line terminator
NoticeText(opener, years, org) ==
    opener \o <<" ">> \o Copyright \o <<" ">> \o CopyrightSign \o <<" ">>
    \o join([i \in 1..Len(years) |-> to_string(years[i])], <<",">>)
    \o <<" ">> \o org

IsNotice(f) == COPYRIGHT_OPENER(trim_right(read_line(f))).matched

\* C2 (as claimed): when the first line is not a notice, update_file (no
\* system call failing) ends with the file being the line
\* "// Copyright (c) <years> <organization>", one newline, and then every
\* byte of the original file; for a file of any length, zero included.
C2_NewNoticePrepended ==
    \A i \in 1..Len(updLog) :
        updLog[i].fault = "none" /\ ~IsNotice(updLog[i].before) =>
            /\ updLog[i].status = "done"
            /\ updLog[i].after =
                   NoticeText(<<"/", "/">>, updJob.years, updJob.organization)
                   \o <<"\n">> \o updLog[i].before

\* C3 (as claimed): when the first line is a notice, update_file (no system
\* call failing) ends with the file being "<captured opener> Copyright (c)
\* <years> <organization>" followed at once by the original bytes from the
\* end of the old first line's trimmed text on: no byte added or lost.
C3_NoticeReplacedInPlace ==
    \A i \in 1..Len(updLog) :
        updLog[i].fault = "none" /\ IsNotice(updLog[i].before) =>
            LET before == updLog[i].before
                old    == trim_right(read_line(before))
            IN  /\ updLog[i].status = "done"
                /\ updLog[i].after =
                       NoticeText(COPYRIGHT_OPENER(old).opener, updJob.years,
                                  updJob.organization)
                       \o SubSeq(before, Len(old) + 1, Len(before))

\* C4 (as claimed): a second run of update_file with the same years and
\* organization leaves the file byte-identical to what the first run left.
C4_RewriteIdempotent ==
    /\ Len(updLog) >= 2
    /\ updLog[1].status = "done"
    /\ updLog[2].fault = "none"
    => /\ updLog[2].status = "done"
       /\ updLog[2].after = updLog[1].after

----------------------------------------------------------------------------
\* Claims about the merge.

StrictlyAscending(q) == \A i \in 1..(Len(q) - 1) : q[i] < q[i + 1]

YearsOf(map, p) == IF p \in DOMAIN map THEN Range(map[p]) ELSE {}

\* C5: after trim_header_years and combine_year_maps, the keys of the
\* canonical map are the keys of the header map and of the history map
\* together, and each value is the ascending, repeat-free list of the
\* header years not after the first commit's year and the history years.
C5_CanonicalIsTrimmedUnion ==
    mainPc = "update_headers" =>
        /\ DOMAIN all_years = DOMAIN joined.header \cup DOMAIN joined.git
        /\ \A p \in DOMAIN all_years :
              /\ StrictlyAscending(all_years[p])
              /\ Range(all_years[p]) =
                     {y \in YearsOf(joined.header, p) : y <= first_git_year}
                     \cup YearsOf(joined.git, p)

\* C5 happens: the history map is the larger one, and for a key of both
\* maps a header year after the first commit's year was dropped.
C5_Witness ==
    /\ mainPc = "update_headers"
    /\ Cardinality(DOMAIN joined.git) > Cardinality(DOMAIN joined.header)
    /\ \E p \in DOMAIN joined.header :
          /\ p \in DOMAIN joined.git
          /\ \E y \in Range(joined.header[p]) :
                y > first_git_year /\ y \notin Range(all_years[p])
          /\ Len(all_years[p]) >= 2

\* the i-th kept index of a list: the index of its i-th year that is not
\* after first_year
KeptIndex(q, first_year, i) ==
    CHOOSE k \in 1..Len(q) :
        /\ q[k] <= first_year
        /\ Cardinality({j \in 1..k : q[j] <= first_year}) = i

\* C9: trim_header_years removes from every list exactly the years greater
\* than first_commit_year; the kept years (the first commit's year among
\* them) stay in their order, none is added, no list grows.
C9_TrimKeepsUpToFirstYear ==
    mainPc \in {"combine", "update_headers"} =>
        /\ DOMAIN header_years = DOMAIN joined.header
        /\ \A p \in DOMAIN header_years :
              LET in  == joined.header[p]
                  out == header_years[p]
              IN  /\ Len(out) =
                         Cardinality({j \in 1..Len(in) :
                                         in[j] <= first_git_year})
                  /\ Len(out) <= Len(in)
                  /\ \A i \in 1..Len(out) :
                         out[i] = in[KeptIndex(in, first_git_year, i)]

\* C9 happens: a list lost a year after the first commit's year and kept
\* the first commit's own year.
C9_Witness ==
    /\ mainPc = "combine"
    /\ \E p \in DOMAIN header_years :
          /\ first_git_year \in Range(header_years[p])
          /\ Len(header_years[p]) < Len(joined.header[p])
          /\ Len(header_years[p]) >= 2

----------------------------------------------------------------------------
\* Claims about a whole run.

Phase ==
    CASE mainPc \in {"args", "repo_top", "ignores", "first_year", "spawn"}
             -> "Startup"
      [] mainPc \in {"join_header", "join_git"} -> "Scanning"
      [] mainPc \in {"trim", "combine"} -> "Merging"
      [] mainPc \in {"update_headers", "launch", "lock", "check", "waiting"}
             -> "Rewriting"
      [] mainPc = "exit0" -> "Done"
      [] OTHER -> "Aborted"

PhaseRank ==
    CASE Phase = "Startup" -> 0
      [] Phase = "Scanning" -> 1
      [] Phase = "Merging" -> 2
      [] Phase = "Rewriting" -> 3
      [] Phase = "Done" -> 4
      [] OTHER -> 5

\* C6 (as claimed): a failure at any step of one file's rewrite is reported
\* with the path of the file, and it stops only that file's task: the
\* failed task is reported and keeps the lock from no other task.
C6_FailureStaysLocal ==
    /\ \A r \in reports : r.stage = "update" => r.names_path
    /\ \A p \in Paths : taskPc[p] = "panicked" =>
           /\ updMutex # p
           /\ \E r \in reports : r.stage = "update" /\ r.path = p

\* C7 (as claimed): once every rewrite task has completed or failed, the
\* wait in update_headers ends: the counter it waits for is zero, so that
\* the run reaches Done and exits with code 0.
C7_WaitEndsAfterFailures ==
    /\ mainPc \in {"lock", "check", "waiting"}
    /\ \A p \in DOMAIN all_years : taskPc[p] \in {"done", "panicked"}
    => paths_remaining = 0

\* C10: a run goes through Startup, Scanning, Merging, Rewriting, Done in
\* this order, one phase at a time and never back (or it is aborted); the
\* merge starts only when the header pass and the history pass have both
\* returned; no rewrite task exists and no file has changed before the
\* merge has produced the canonical map.
C10_PhasesInOrder ==
    /\ [](/\ Phase = "Merging" => hdrPc = "returned" /\ gitPc = "returned"
          /\ Phase \in {"Startup", "Scanning", "Merging"} =>
                 /\ fs = fsStart
                 /\ \A p \in Paths : taskPc[p] = "off"
          /\ \A p \in Paths : taskPc[p] # "off" =>
                 /\ p \in DOMAIN all_years
                 /\ all_years =
                        combine_year_maps(
                            trim_header_years(joined.header, first_git_year),
                            joined.git))
    /\ [][PhaseRank' \in {PhaseRank, PhaseRank + 1} \/ Phase' = "Aborted"]_vars

\* C10 happens: a run is Done, with years from both passes merged and a
\* file rewritten.
C10_Witness ==
    /\ Phase = "Done"
    /\ joined.header # EmptyMap
    /\ joined.git # EmptyMap
    /\ fs # fsStart
    /\ \E p \in Paths : taskPc[p] = "done"

\* how far the task of a path has come
TaskRank(pc) ==
    CASE pc = "off" -> 0
      [] pc = "queued" -> 1
      [] pc = "open" -> 2
      [] pc = "written" -> 3
      [] pc = "locked" -> 4
      [] OTHER -> 5

\* C11: in the Rewriting phase a task exists only for a key of the
\* canonical map, every key has its task once the loop of update_headers is
\* over, and the task of a path is handed to the pool once and never starts
\* again: no path is open in two workers.
C11_OneTaskPerKey ==
    /\ [](\A p \in Paths : taskPc[p] # "off" => p \in DOMAIN all_years)
    /\ [](mainPc \in {"lock", "check", "waiting", "exit0"} =>
              \A p \in DOMAIN all_years : taskPc[p] # "off")
    /\ [][\A p \in Paths :
              /\ TaskRank(taskPc'[p]) >= TaskRank(taskPc[p])
              /\ taskPc'[p] = "queued" => taskPc[p] \in {"off", "queued"}]_vars

\* C11 happens: every path is a key, and two workers are each inside the
\* rewrite of their own path at the same time.
C11_Witness ==
    /\ DOMAIN all_years = Paths
    /\ Cardinality({p \in Paths : taskPc[p] = "open"}) >= 2

\* C12 (as claimed): a failure to open or read one path in the header scan
\* is reported for that path and is not fatal: once every path is scanned
\* or has failed, nothing is left for the header scan to wait for, and it
\* returns the map of the other paths.
C12_ScanFailureNotFatal ==
    /\ \A r \in reports : r.stage = "scan" => r.names_path
    /\ (/\ hdrPc \in {"lock", "check", "waiting"}
        /\ \A p \in Paths : scanPc[p] \in {"done", "panicked"})
           => scanShared.paths_remaining = 0

----------------------------------------------------------------------------
\* Claims about the detection of a notice.

ToLower(c) ==
    CASE c = "C" -> "c" [] c = "O" -> "o" [] c = "P" -> "p" [] c = "Y" -> "y"
      [] c = "R" -> "r" [] c = "I" -> "i" [] c = "G" -> "g" [] c = "H" -> "h"
      [] c = "T" -> "t" [] OTHER -> c

\* the claimed shape of a notice line: whitespace, "//" or "/*", any text,
\* then one of the words; gives the set of ends of the opener (empty, or
\* one index)
ShapeOpenerEnds(line, IsWord(_)) ==
    {i + 1 : i \in {i \in 1..(Len(line) - 1) :
        /\ \A k \in 1..(i - 1) : line[k] \in WhiteSpace
        /\ line[i] = "/"
        /\ line[i + 1] \in {"/", "*"}
        /\ \E j \in (i + 2)..(Len(line) - 8) :
               IsWord(SubSeq(line, j, j + 8))}}

AnyCaseWord(w) == [k \in 1..Len(w) |-> ToLower(w[k])] = copyright
FirstLetterCaseWord(w) == w \in {Copyright, copyright}

StartsWith(f, prefix) ==
    Len(f) >= Len(prefix) /\ SubSeq(f, 1, Len(prefix)) = prefix

\* what C13 says of one run of update_file, for a given set of words
NoticeCriterion(run, IsWord(_)) ==
    LET line == read_line(run.before)
        ends == ShapeOpenerEnds(line, IsWord)
    IN  /\ IsNotice(run.before) <=> ends # {}
        /\ scan_file(run.before).notice <=> ends # {}
        /\ run.status = "done" =>
               StartsWith(run.after,
                   (IF ends # {} THEN SubSeq(line, 1, SetMax(ends))
                    ELSE <<"/", "/">>) \o <<" ">> \o Copyright)

----------------------------------------------------------------------------
\* Claims about the years of a notice.

\* the opener update_file uses for the file a run started with
OpenerOf(f) ==
    LET capture == COPYRIGHT_OPENER(trim_right(read_line(f)))
    IN  IF capture.matched THEN capture.opener ELSE <<"/", "/">>

\* C14: the year list of every path that update_file is given is strictly
\* ascending, and so are the years of the notice it has written, whatever
\* the order in which the scans delivered them.
C14_YearsAscending ==
    \A p \in Paths : taskPc[p] # "off" =>
        /\ StrictlyAscending(all_years[p])
        /\ taskPc[p] \in {"written", "locked", "done"} =>
               StartsWith(fs[p].bytes,
                          NoticeText(OpenerOf(fsStart[p].bytes),
                                     all_years[p], organization))

\* C14 happens: a notice is written with a header year and history years
\* that the history scan delivered newest first and with a repeat.
C14_Witness ==
    \E p \in Paths :
        /\ taskPc[p] = "done"
        /\ p \in DOMAIN joined.header
        /\ p \in DOMAIN joined.git
        /\ ~StrictlyAscending(joined.git[p])
        /\ Len(joined.git[p]) > Cardinality(Range(joined.git[p]))
        /\ Len(all_years[p]) >= 3

----------------------------------------------------------------------------
\* Claims about the startup checks.

\* C15 (as claimed): a run that ends in its startup checks (the organization
\* is missing, the directory is not the top of the repository, a commit to
\* ignore does not resolve, the year of the first commit cannot be found)
\* exits with code 1, and then no scan was spawned, no task was launched
\* and no file was opened or changed.
C15_StartupFailureExitsOne ==
    /\ mainPc \in {"exit0", "exit1", "panicked", "killed"} /\ hdrPc = "off"
           => mainPc = "exit1"
    /\ mainPc = "exit1" =>
           /\ hdrPc = "off"
           /\ gitPc = "off"
           /\ \A p \in Paths : scanPc[p] = "off" /\ taskPc[p] = "off"
           /\ fs = fsStart
           /\ reports = {}

----------------------------------------------------------------------------
\* Claims about the steps of slide_file_contents.

\* C16 (as claimed): in a grow the file is mapped at its new length, and
\* the source [offset, file_length) and the destination
\* [offset + amount, file_length + amount) of the move lie inside the
\* mapped region.
C16_GrowMovesInsideMapping ==
    slidePc = "mapped" /\ slideCall.amount > 0 =>
        /\ mapping.live
        /\ mapping.aligned_length =
               round_to_page(slideCall.file_length + slideCall.amount)
        /\ slideCall.file_length <= mapping.aligned_length
        /\ slideCall.file_length + slideCall.amount <= mapping.aligned_length

\* C17 (as claimed): when slide_file_contents returns, every byte before
\* offset is as it was before the call, in a grow and in a shrink.
C17_FrameBelowOffset ==
    slidePc = "returned" /\ slideLog # <<>> =>
        \A k \in 1..slideCall.offset :
            /\ k <= Len(fileBytes)
            /\ fileBytes[k] = slideCall.before[k]

\* C17 (amended): at every step of slide_file_contents, and however it
\* ends, every byte before offset (grow) or before offset + amount
\* (shrink), the lower end of what the move touches, is as it was before
\* the call.
C17_FrameBelowMove ==
    slideLog # <<>> =>
        \A k \in 1..(IF slideCall.amount < 0
                     THEN slideCall.offset + slideCall.amount
                     ELSE slideCall.offset) :
            /\ k <= Len(fileBytes)
            /\ fileBytes[k] = slideCall.before[k]

\* C17 happens: a shrink that moved a tail has returned and has left bytes
\* below its destination.
C17_Witness ==
    /\ slidePc = "returned"
    /\ slideCall.amount < 0
    /\ slideCall.offset + slideCall.amount > 0
    /\ slideCall.offset < slideCall.file_length
    /\ fileBytes # slideCall.before

\* C18 (as claimed): when the mapping, the truncation or the reservation
\* of space fails inside slide_file_contents, the call ends with the file
\* as it was before the call, content and length.
C18_FailureNotPartial ==
    slidePc = "panicked" /\ slideLog # <<>> => fileBytes = slideCall.before

\* C19: in a grow the space for the new length is reserved before the file
\* is mapped and before a byte is moved: up to the reservation the file is
\* as it was and unmapped, the step after the size check is the reservation
\* and nothing else, a failing reservation ends the call with every byte
\* of the file where it was, and a live mapping sees the file at its new
\* length.
C19_ReserveBeforeMapAndMove ==
    /\ [](slideLog # <<>> /\ slideCall.amount > 0 =>
            /\ slidePc = "sized" =>
                   fileBytes = slideCall.before /\ ~mapping.live
            /\ slidePc = "fallocated" =>
                   /\ fileBytes = slideCall.before \o Zeros(slideCall.amount)
                   /\ ~mapping.live
            /\ mapping.live =>
                   Len(fileBytes) = slideCall.file_length + slideCall.amount)
    /\ [][slideCall.amount > 0 /\ slidePc = "sized" =>
            /\ slidePc' \in {"fallocated", "panicked"}
            /\ ~mapping'.live
            /\ slidePc' = "panicked" =>
                   StartsWith(fileBytes', slideCall.before)]_vars

\* C19 happens: a grow has reserved, mapped, moved a tail and returned.
C19_Witness ==
    /\ slidePc = "returned"
    /\ slideCall.amount > 0
    /\ slideCall.offset < slideCall.file_length
    /\ Len(fileBytes) = slideCall.file_length + slideCall.amount
    /\ fileBytes[Len(fileBytes)] # NUL

IsLeastPageMultiple(r, len) ==
    /\ r % PageSize = 0
    /\ r >= len
    /\ \A m \in len..(r - 1) : m % PageSize # 0

\* C21: round_to_page(len) is the least multiple of the page size not below
\* len, and only the mapping has the rounded size: the mapping of a call is
\* that multiple for file_length, the file is file_length + amount bytes
\* long when the call returns, and a shrink moves file_length - offset
\* bytes and no more (the bytes after the new end of the tail stay until
\* the truncation).
C21_RoundedSizeOnlyForMapping ==
    /\ IsLeastPageMultiple(round_to_page(Len(fileBytes)), Len(fileBytes))
    /\ slideLog # <<>> =>
          /\ mapping.live =>
                 IsLeastPageMultiple(mapping.aligned_length,
                                     slideCall.file_length)
          /\ slidePc = "returned" /\ slideCall.amount # 0 =>
                 Len(fileBytes) = slideCall.file_length + slideCall.amount
          /\ slidePc \in {"copied", "unmapped"} /\ slideCall.amount < 0 =>
                 /\ Len(fileBytes) = slideCall.file_length
                 /\ \A k \in (slideCall.file_length + slideCall.amount + 1)
                               .. slideCall.file_length :
                        fileBytes[k] = slideCall.before[k]

\* C21 happens: a file one byte longer than a page is mapped with two pages
\* and a shrink has moved its tail.
C21_Witness ==
    /\ slidePc = "copied"
    /\ slideCall.amount < 0
    /\ slideCall.offset < slideCall.file_length
    /\ slideCall.file_length > PageSize
    /\ mapping.live
    /\ mapping.aligned_length > slideCall.file_length

\* a 4-digit number on a line: four digits with no digit before or after
FourDigitNumbers(s) ==
    {i \in 1..(Len(s) - 3) :
        /\ \A k \in i..(i + 3) : s[k] \in Digits
        /\ i = 1 \/ s[i - 1] \notin Digits
        /\ i + 4 > Len(s) \/ s[i + 4] \notin Digits}

\* the numbers at i and j are separated by a hyphen, an en dash or an em
\* dash, with nothing but white space around it
DashBetween(s, i, j) ==
    \E d \in (i + 4)..(j - 1), w \in {<<"-">>, EnDash, EmDash} :
        /\ HasAt(s, d, w)
        /\ d + Len(w) <= j
        /\ \A k \in ((i + 4)..(d - 1)) \cup ((d + Len(w))..(j - 1)) :
               s[k] \in WhiteSpace

\* the years C22 gives a notice line: the bare numbers, and every year of
\* every dashed pair
YearsAsClaimed(s) ==
    LET nums  == FourDigitNumbers(s)
        pairs == {ij \in nums \X nums : DashBetween(s, ij[1], ij[2])}
        bare  == {i \in nums : \A ij \in pairs : i # ij[1] /\ i # ij[2]}
    IN  {ParseYear(s, i) : i \in bare}
        \cup UNION {ParseYear(s, ij[1])..ParseYear(s, ij[2]) : ij \in pairs}

\* C22 (as claimed): a scan task that read its file returns, for a first
\* line that is a notice, every bare 4-digit number of the line and every
\* year from a to b of every pair a, b of 4-digit numbers separated by a
\* dash; for a first line that is no notice it enters no years for the
\* path.
C22_ScanReturnsYears ==
    \A p \in Paths :
        (/\ scanPc[p] \in {"done", "panicked"}
         /\ fs[p].exists
         /\ \A r \in reports : r.path = p => r.at = "parse")
        => LET line == read_line(fs[p].bytes)
           IN  IF ShapeOpenerEnds(line, FirstLetterCaseWord) # {}
               THEN /\ scanPc[p] = "done"
                    /\ p \in DOMAIN scanShared.result
                    /\ YearsAsClaimed(line)
                           \subseteq Range(scanShared.result[p])
               ELSE p \notin DOMAIN scanShared.result

\* C23: every call update_file makes to slide_file_contents has its offset
\* within the file and offset + amount >= 0, so the assertion does not
\* fail; offset + amount is the length of the line written afterwards; a
\* finished run has that line at the start, followed by as many bytes as
\* the file had from offset on, and by those very bytes whenever the move
\* stayed inside the mapping.
C23_WriteFillsTheGap ==
    \A i \in DOMAIN updLog :
        LET r == updLog[i]
            c == r.call
            n == Len(r.before)
        IN  c.made =>
              /\ 0 <= c.offset /\ c.offset <= n
              /\ c.offset + c.amount >= 0
              /\ r.at # "assert"
              /\ c.offset + c.amount = Len(c.line)
              /\ r.status = "done" =>
                    /\ StartsWith(r.after, c.line)
                    /\ Len(r.after) = Len(c.line) + (n - c.offset)
                    /\ (c.amount <= 0 \/ n + c.amount <= round_to_page(n)) =>
                           r.after = c.line \o SubSeq(r.before,
                                                      c.offset + 1, n)

\* C23 happens: a notice was replaced by a shorter line and by a longer
\* line, each with a tail after it.
C23_Witness ==
    /\ \E i \in DOMAIN updLog :
          /\ updLog[i].status = "done"
          /\ updLog[i].call.offset > 0
          /\ updLog[i].call.amount < 0
          /\ updLog[i].call.offset < Len(updLog[i].before)
    /\ \E i \in DOMAIN updLog :
          /\ updLog[i].status = "done"
          /\ updLog[i].call.offset > 0
          /\ updLog[i].call.amount > 0
          /\ updLog[i].call.offset < Len(updLog[i].before)

\* update_headers has set up its counter, and the process was not killed
CounterSet ==
    mainPc \in {"launch", "lock", "check", "waiting", "exit0"}

\* the state part of C24, for a given reading of which rewrite tasks and
\* which scan tasks the counters count
CountersCount(RewriteCounted(_), ScanCounted(_)) ==
    /\ paths_remaining >= 0
    /\ scanShared.paths_remaining >= 0
    /\ CounterSet =>
          paths_remaining =
              Cardinality({p \in DOMAIN all_years :
                              RewriteCounted(p) /\ taskPc[p] # "done"})
    /\ hdrPc \in {"launch", "lock", "check", "waiting", "returned"} =>
          scanShared.paths_remaining =
              Cardinality({p \in Paths :
                              ScanCounted(p) /\ scanPc[p] # "done"})
    /\ mainPc = "exit0" /\ CounterSet =>
          \A p \in DOMAIN all_years : taskPc[p] = "done"
    /\ hdrPc = "returned" => \A p \in Paths : scanPc[p] = "done"
    /\ DOMAIN all_years = {} => mainPc # "waiting"

LaunchedRewrite(p) == taskPc[p] # "off"
LaunchedScan(p) == scanPc[p] # "off"
EveryTask(p) == TRUE

DecrementsAtTheEnd ==
    /\ paths_remaining' # paths_remaining /\ mainPc # "update_headers" =>
          /\ paths_remaining' = paths_remaining - 1
          /\ \E p \in Paths : taskPc[p] = "locked" /\ taskPc'[p] = "done"
    /\ scanShared'.paths_remaining # scanShared.paths_remaining
       /\ hdrPc # "enter" =>
          /\ scanShared'.paths_remaining = scanShared.paths_remaining - 1
          /\ \E p \in Paths : scanPc[p] = "locked" /\ scanPc'[p] = "done"
    /\ \A p \in Paths :
          /\ taskPc[p] \in {"locked", "done"} =>
                 fs'[p] = fs[p] /\ taskPc'[p] \in {"locked", "done"}
          /\ taskPc[p] = "done" => taskPc'[p] = "done"
          /\ scanPc[p] = "done" =>
                 /\ scanPc'[p] = "done"
                 /\ p \in DOMAIN scanShared'.result
                        <=> p \in DOMAIN scanShared.result
                 /\ p \in DOMAIN scanShared.result =>
                        scanShared'.result[p] = scanShared.result[p]

NoTaskFailed ==
    /\ mainPc # "killed"
    /\ \A p \in Paths :
          taskPc[p] \notin {"panicked", "killed"} /\ scanPc[p] # "panicked"

\* no wakeup is lost: a waiter that waits on a counter of zero has been
\* notified
NoLostWakeup ==
    /\ mainPc = "waiting" /\ paths_remaining = 0 => updSignal
    /\ hdrPc = "waiting" /\ Alive /\ scanShared.paths_remaining = 0
           => scanSignal

\* a waiter that wakes goes for the lock and the check again, the counter
\* as it was; it enters the wait only from a check that found the counter
\* above zero
WakeRechecks ==
    /\ mainPc = "waiting" /\ mainPc' # "waiting" =>
          mainPc' \in {"lock", "killed"} /\ paths_remaining' = paths_remaining
    /\ mainPc # "waiting" /\ mainPc' = "waiting" =>
          mainPc = "check" /\ paths_remaining > 0
    /\ hdrPc = "waiting" /\ hdrPc' # "waiting" =>
          /\ hdrPc' = "lock"
          /\ scanShared'.paths_remaining = scanShared.paths_remaining
    /\ hdrPc # "waiting" /\ hdrPc' = "waiting" =>
          hdrPc = "check" /\ scanShared.paths_remaining > 0

\* C25: when no task fails, update_headers and get_year_map_thread, once
\* entered, return in the end, under every fair interleaving of the workers
\* and the waiter; the last decrement and its notify_all do not fall between
\* the waiter's check and its wait: a waiter waiting on a counter of zero
\* has a wakeup pending; a wakeup, spurious or not, leads to the lock and
\* the check again and changes nothing else.
C25_WaiterReturns ==
    /\ [](NoLostWakeup)
    /\ [][WakeRechecks]_vars
    /\ (mainPc \in {"update_headers", "launch", "lock", "check", "waiting"})
           ~> (mainPc = "exit0" \/ ~NoTaskFailed)
    /\ (hdrPc \in {"enter", "launch", "lock", "check", "waiting"})
           ~> (hdrPc = "returned" \/ ~NoTaskFailed)

\* C25 happens: the last task decremented the counter to zero while
\* update_headers was in its wait, and the wakeup is pending.
C25_Witness ==
    /\ mainPc = "waiting"
    /\ paths_remaining = 0
    /\ updSignal
    /\ NoTaskFailed
    /\ Cardinality(DOMAIN all_years) >= 2

====
